---- MODULE Spec2Model ----
(***************************************************************************)
(* Model of Dashboard_micheal.py: the nitrogen-loss dashboard callback.    *)
(*                                                                         *)
(* A DataFrame is [columns |-> set of column names, rows |-> sequence of   *)
(* rows], a row being a function from the column names to cell values.     *)
(* Mass quantities are integers in raw mass units; a displayed value       *)
(* "x.yz" (millions, 2 decimals) is the integer xyz of hundredths.         *)
(* Production totals (head, acres) are fixed-point integers in             *)
(* thousandths, so that rounding to 2 decimals is observable.              *)
(***************************************************************************)
EXTENDS Integers, Sequences, FiniteSets, TLC

VARIABLES
    files,                 \* the CSV storage: directory -> file name -> table
    data_paths,            \* module-level dict: year -> directory
    nitrogen_loss_labels,  \* module-level dict (insertion-ordered): column -> label
    pc,                    \* per request: position in update_dashboard
    year,                  \* per request: the selected_year argument
    frame,                 \* the local variables of each update_dashboard call
    response,              \* per request: what the callback handed back to its caller
    overlap,               \* history: whether another call was in flight during this one
    served                 \* history: for each selected value, the distinct responses

vars == <<files, data_paths, nitrogen_loss_labels, pc, year, frame, response, overlap, served>>

-----------------------------------------------------------------------------
(* Bounds of the model *)

MaxRows == 2
NReq == 2

(* Program constants *)

Million == 1000000

\* pandas' missing value in a numeric column (an empty CSV cell)
NaN == -1
\* pandas' missing value in a string column (an empty CSV cell)
NaNStr == ""

Requests == 1..NReq

-----------------------------------------------------------------------------
(* Arithmetic helpers *)

RECURSIVE SumSeq(_)
SumSeq(s) == IF Len(s) = 0 THEN 0 ELSE Head(s) + SumSeq(Tail(s))

\* skipna=True: a missing cell contributes nothing to a pandas sum
Skipna(v) == IF v = NaN THEN 0 ELSE v

\* round-half-to-even of n / unit (numpy's rint on the scaled value)
RoundHalfEven(n, unit) ==
    LET q == n \div unit
        r == n % unit
    IN  IF 2 * r > unit THEN q + 1
        ELSE IF 2 * r < unit THEN q
        ELSE IF q % 2 = 0 THEN q ELSE q + 1

\* round(x / 10 ** 6, 2): the value in hundredths of a million
RoundMillions(v) == RoundHalfEven(v, Million \div 100)

\* DataFrame.round(2) on a fixed-point value in thousandths
Round2(v) == IF v = NaN THEN NaN ELSE 10 * RoundHalfEven(v, 10)

RECURSIVE Log2Floor(_)
Log2Floor(n) == IF n <= 1 THEN 0 ELSE 1 + Log2Floor(n \div 2)

\* np.log1p on a cell: log(1 + v), zero at zero, NaN stays NaN; the
\* logarithm is taken to base 2 and floored to stay in the integers
Log1p(v) == IF v = NaN THEN NaN ELSE Log2Floor(1 + v)

RECURSIVE SortAsc(_)
SortAsc(S) ==
    IF S = {} THEN <<>>
    ELSE LET m == CHOOSE x \in S : \A y \in S : x <= y
         IN  <<m>> \o SortAsc(S \ {m})

SeqsUpTo(S, n) == UNION {[1..k -> S] : k \in 0..n}

-----------------------------------------------------------------------------
(* Strings: column names and commodity labels *)

\* col.replace("selfloop", "within_county") if col.startswith("selfloop") else col
RenameColumn(col) ==
    CASE col = "selfloop_crop_processing_nitrogen" -> "within_county_crop_processing_nitrogen"
      [] col = "selfloop_animal_nitrogen" -> "within_county_animal_nitrogen"
      [] col = "selfloop_meat_nitrogen" -> "within_county_meat_nitrogen"
      [] OTHER -> col

\* f"log_{col}"
LogName(col) ==
    CASE col = "nitrogen_loss1" -> "log_nitrogen_loss1"
      [] col = "nitrogen_loss2" -> "log_nitrogen_loss2"
      [] col = "nitrogen_loss3" -> "log_nitrogen_loss3"
      [] col = "nitrogen_loss4" -> "log_nitrogen_loss4"
      [] col = "nitrogen_loss5" -> "log_nitrogen_loss5"
      [] col = "nitrogen_loss6" -> "log_nitrogen_loss6"
      [] col = "nitrogen_loss7" -> "log_nitrogen_loss7"
      [] col = "total_nitrogen_loss" -> "log_total_nitrogen_loss"
      [] col = "import_crop_processing_nitrogen" -> "log_import_crop_processing_nitrogen"
      [] col = "export_crop_processing_nitrogen" -> "log_export_crop_processing_nitrogen"
      [] col = "within_county_crop_processing_nitrogen" -> "log_within_county_crop_processing_nitrogen"
      [] col = "import_animal_nitrogen" -> "log_import_animal_nitrogen"
      [] col = "export_animal_nitrogen" -> "log_export_animal_nitrogen"
      [] col = "within_county_animal_nitrogen" -> "log_within_county_animal_nitrogen"
      [] col = "import_meat_nitrogen" -> "log_import_meat_nitrogen"
      [] col = "export_meat_nitrogen" -> "log_export_meat_nitrogen"
      [] col = "within_county_meat_nitrogen" -> "log_within_county_meat_nitrogen"
      [] OTHER -> "log_"

\* str.title(): every run of letters starts upper-case, the rest lower-case
StrTitle(s) ==
    CASE s = "corn" -> "Corn"
      [] s = "winter_wheat" -> "Winter_Wheat"
      [] s = "dairy_cattle" -> "Dairy_Cattle"
      [] s = "Beef_Cattle" -> "Beef_Cattle"
      [] OTHER -> s

\* str.replace("_", " ")
StrReplaceUnderscore(s) ==
    CASE s = "Winter_Wheat" -> "Winter Wheat"
      [] s = "Dairy_Cattle" -> "Dairy Cattle"
      [] s = "Beef_Cattle" -> "Beef Cattle"
      [] s = "winter_wheat" -> "winter wheat"
      [] s = "dairy_cattle" -> "dairy cattle"
      [] OTHER -> s

\* the commodity names in pandas' sort order (code points: upper before lower)
CommodityOrder == <<"Beef_Cattle", "corn", "dairy_cattle", "winter_wheat">>

-----------------------------------------------------------------------------
(* DataFrames *)

EmptyDf == [columns |-> {}, rows |-> <<>>]

NRows(df) == Len(df.rows)

\* df[name] = values (adds the column, or overwrites one of that name)
SetColumn(df, name, values) ==
    [columns |-> df.columns \cup {name},
     rows |-> [i \in 1..NRows(df) |->
                  [c \in df.columns \cup {name} |->
                      IF c = name THEN values[i] ELSE df.rows[i][c]]]]

\* df.columns = [rename(col) for col in df.columns]
RenameColumns(df) ==
    LET renamed == {RenameColumn(c) : c \in df.columns}
        Old(c) == CHOOSE o \in df.columns : RenameColumn(o) = c
    IN  [columns |-> renamed,
         rows |-> [i \in 1..NRows(df) |-> [c \in renamed |-> df.rows[i][Old(c)]]]]

\* df[cols].sum(axis=1)
RowSums(df, cols) ==
    [i \in 1..NRows(df) |->
        SumSeq([k \in 1..Len(cols) |-> Skipna(df.rows[i][cols[k]])])]

\* df[col].sum()
ColumnSum(df, col) == SumSeq([i \in 1..NRows(df) |-> Skipna(df.rows[i][col])])

\* df[cols]: the rows restricted to the columns cols
Project(df, cols) ==
    [i \in 1..NRows(df) |-> [c \in cols |-> df.rows[i][c]]]

\* np.log1p(df[col])
LogColumn(df, col) == [i \in 1..NRows(df) |-> Log1p(df.rows[i][col])]

-----------------------------------------------------------------------------
(* load_data *)

Years == {"2017", "2030", "2050"}

\* data_paths as the module defines it: year -> directory under data/
DataPaths == [y \in Years |-> y]

\* nitrogen_loss_labels as the module defines it, in insertion order
NitrogenLossLabels ==
    << [col |-> "nitrogen_loss1", label |-> "N input not taken by crop"],
       [col |-> "nitrogen_loss2", label |-> "Crop processing N loss"],
       [col |-> "nitrogen_loss3", label |-> "Feed waste & manure loss"],
       [col |-> "nitrogen_loss4", label |-> "Slaughtering/milking/laying N loss"],
       [col |-> "nitrogen_loss5", label |-> "Food processing N loss"],
       [col |-> "nitrogen_loss6", label |-> "Food N waste"],
       [col |-> "nitrogen_loss7", label |-> "Human N waste"] >>

FileNames ==
    {"nitrogen_losses_summary.csv", "harvested_area_by_commodity.csv",
     "inventory_by_commodity.csv", "crop_processing_nitrogen.csv",
     "animal_stage_nitrogen.csv"}

\* the local variables of one update_dashboard call, before load_data returns
EmptyFrame ==
    [error |-> "",
     nitrogen_df |-> EmptyDf, area_df |-> EmptyDf, inventory_df |-> EmptyDf,
     crop_df |-> EmptyDf, animal_df |-> EmptyDf, total_nitrogen_df |-> EmptyDf,
     maps |-> <<>>, nitrogen_loss_table |-> <<>>,
     import_export_content |-> <<>>,
     inventory_chart |-> <<>>, area_chart |-> <<>>,
     inventory_table |-> <<>>, area_table |-> <<>>]

\* an exception leaving the call: the frame as it stood, with the error
Raise(fr, err) == [fr EXCEPT !.error = err]

\* pd.read_csv(os.path.join(path, name))
ReadCsv(path, name) == files[path][name]

AsDf(file) == [columns |-> file.columns, rows |-> file.rows]

\* variant: the crop total also sums an import column
CropLossColumnsWithImport ==
    <<"nitrogen_loss1", "nitrogen_loss2", "import_crop_processing_nitrogen">>

CropLossColumns == <<"nitrogen_loss1", "nitrogen_loss2">>

AnimalLossColumns ==
    <<"nitrogen_loss3", "nitrogen_loss4", "nitrogen_loss5", "nitrogen_loss6",
      "nitrogen_loss7">>

TotalColumns == {"FIPS", "county", "total_nitrogen_loss"}

Range(s) == {s[i] : i \in 1..Len(s)}

\* variant: the value of the group's first row, null or not
FirstValue(s) == s[1]

\* groupby(...).agg('first'): the first non-null value of the group
FirstValid(s) ==
    IF \E i \in 1..Len(s) : s[i] # NaNStr
    THEN s[CHOOSE i \in 1..Len(s) :
               s[i] # NaNStr /\ \A j \in 1..(i - 1) : s[j] = NaNStr]
    ELSE NaNStr

\* the groups of groupby('FIPS'): sorted keys, rows with a missing key dropped
GroupKeys(rows) == SortAsc({rows[i]["FIPS"] : i \in 1..Len(rows)} \ {NaN})

\* groupby('FIPS').agg({'total_nitrogen_loss': 'sum', 'county': 'first'}).reset_index()
GroupByFIPS(rows) ==
    LET keys == GroupKeys(rows)
        Group(k) == SelectSeq(rows, LAMBDA r : r["FIPS"] = k)
    IN  [n \in 1..Len(keys) |->
            LET grp == Group(keys[n])
            IN  [FIPS |-> keys[n],
                 total_nitrogen_loss |->
                     SumSeq([i \in 1..Len(grp) |-> Skipna(grp[i]["total_nitrogen_loss"])]),
                 county |-> FirstValid([i \in 1..Len(grp) |-> grp[i]["county"]])]]

\* pd.concat([crop[[...]], animal[[...]]]).groupby('FIPS').agg(...).reset_index()
TotalNitrogenDf(crop_df, animal_df) ==
    [columns |-> TotalColumns,
     rows |-> GroupByFIPS(Project(crop_df, TotalColumns) \o Project(animal_df, TotalColumns))]

LoadData(selected_year) ==
    IF selected_year \notin DOMAIN data_paths THEN Raise(EmptyFrame, "KeyError")
    ELSE
    LET path == data_paths[selected_year]
    IN
    IF \E n \in FileNames : ~ReadCsv(path, n).present
    THEN Raise(EmptyFrame, "FileNotFoundError")
    ELSE
    LET nitrogen_df == AsDf(ReadCsv(path, "nitrogen_losses_summary.csv"))
        area_df == AsDf(ReadCsv(path, "harvested_area_by_commodity.csv"))
        inventory_df == AsDf(ReadCsv(path, "inventory_by_commodity.csv"))
        crop0 == RenameColumns(AsDf(ReadCsv(path, "crop_processing_nitrogen.csv")))
        animal0 == RenameColumns(AsDf(ReadCsv(path, "animal_stage_nitrogen.csv")))
        loaded == [EmptyFrame EXCEPT !.nitrogen_df = nitrogen_df,
                                     !.area_df = area_df,
                                     !.inventory_df = inventory_df,
                                     !.crop_df = crop0,
                                     !.animal_df = animal0]
    IN
    IF ~(Range(CropLossColumns) \subseteq crop0.columns)
       \/ ~(Range(AnimalLossColumns) \subseteq animal0.columns)
    THEN Raise(loaded, "KeyError")
    ELSE
    LET crop_df == SetColumn(crop0, "total_nitrogen_loss", RowSums(crop0, CropLossColumns))
        animal_df ==
            SetColumn(animal0, "total_nitrogen_loss", RowSums(animal0, AnimalLossColumns))
        summed == [loaded EXCEPT !.crop_df = crop_df, !.animal_df = animal_df]
    IN
    IF ~(TotalColumns \subseteq crop_df.columns) \/ ~(TotalColumns \subseteq animal_df.columns)
    THEN Raise(summed, "KeyError")
    ELSE [summed EXCEPT !.total_nitrogen_df = TotalNitrogenDf(crop_df, animal_df)]

-----------------------------------------------------------------------------
(* update_dashboard: the nitrogen-loss maps *)

\* px.choropleth(df, locations="FIPS", color=color, hover_name="county",
\*               hover_data={hover: True}, title=title): one point per row.
\* The figure keeps the data it was given; titles and tab labels are kept
\* without their markup and casing, layout and colour scale are left out.
Choropleth(df, color, hover, title) ==
    [title |-> title, locations |-> "FIPS", color |-> color,
     hover_name |-> "county", hover_data |-> hover,
     points |-> [i \in 1..NRows(df) |->
                    [location |-> df.rows[i]["FIPS"],
                     z |-> df.rows[i][color],
                     hover_name |-> df.rows[i]["county"],
                     customdata |-> df.rows[i][hover]]]]

\* variant: the transform also written over the source column
AddLogInPlace(df, col) ==
    SetColumn(SetColumn(df, LogName(col), LogColumn(df, col)), col, LogColumn(df, col))

\* df[f"log_{col}"] = np.log1p(df[col])
AddLogColumn(df, col) == SetColumn(df, LogName(col), LogColumn(df, col))

\* the loop over nitrogen_loss_labels.items(), from its i-th entry (1-based) on
RECURSIVE LossMapLoop(_, _)
LossMapLoop(fr, i) ==
    IF i > Len(nitrogen_loss_labels) THEN fr
    ELSE
    LET col == nitrogen_loss_labels[i].col
        label == nitrogen_loss_labels[i].label
        fromCrop == i - 1 < 2
        df == IF fromCrop THEN fr.crop_df ELSE fr.animal_df
    IN
    IF col \notin df.columns THEN Raise(fr, "KeyError")
    ELSE
    LET logged == AddLogColumn(df, col)
        tab == [label |-> label, figure |-> Choropleth(logged, LogName(col), col, label)]
        next == IF fromCrop
                THEN [fr EXCEPT !.crop_df = logged, !.maps = Append(@, tab)]
                ELSE [fr EXCEPT !.animal_df = logged, !.maps = Append(@, tab)]
    IN  LossMapLoop(next, i + 1)

\* the seven loss maps, then the total-loss map
LossMaps(fr) ==
    LET looped == LossMapLoop(fr, 1)
    IN
    IF looped.error # "" THEN looped
    ELSE
    LET logged == AddLogColumn(looped.total_nitrogen_df, "total_nitrogen_loss")
        tab == [label |-> "Total Nitrogen Loss",
                figure |-> Choropleth(logged, "log_total_nitrogen_loss",
                                      "total_nitrogen_loss",
                                      "Total Nitrogen Loss by County")]
    IN  [looped EXCEPT !.total_nitrogen_df = logged, !.maps = Append(@, tab)]

-----------------------------------------------------------------------------
(* update_dashboard: the nitrogen-loss table *)

StageIds ==
    <<"Nitrogen Loss Stage 1", "Nitrogen Loss Stage 2", "Nitrogen Loss Stage 3",
      "Nitrogen Loss Stage 4", "Nitrogen Loss Stage 5", "Nitrogen Loss Stage 6",
      "Nitrogen Loss Stage 7">>

\* df[cols].sum().sum()
ColumnsSum(df, cols) == SumSeq([k \in 1..Len(cols) |-> ColumnSum(df, cols[k])])

\* round(df[cols].sum().div(10 ** 6), 2).tolist()
RoundedColumnSums(df, cols) ==
    [k \in 1..Len(cols) |-> RoundMillions(ColumnSum(df, cols[k]))]

\* variant: the grand total as the sum of the seven displayed rounded values
TotalFromRounded(crop_df, animal_df) ==
    SumSeq(RoundedColumnSums(crop_df, <<"nitrogen_loss1", "nitrogen_loss2">>))
    + SumSeq(RoundedColumnSums(animal_df,
                               <<"nitrogen_loss3", "nitrogen_loss4", "nitrogen_loss5",
                                 "nitrogen_loss6", "nitrogen_loss7">>))

\* round(crop sum / 10 ** 6 + animal sum / 10 ** 6, 2)
TotalNitrogenLoss(crop_df, animal_df) ==
    RoundMillions(
        ColumnsSum(crop_df, <<"nitrogen_loss1", "nitrogen_loss2">>)
        + ColumnsSum(animal_df, <<"nitrogen_loss3", "nitrogen_loss4", "nitrogen_loss5",
                                  "nitrogen_loss6", "nitrogen_loss7">>))

\* pd.DataFrame({...}).to_dict("records"); columns of unequal length raise
LossTable(fr) ==
    LET ids == StageIds \o <<"Total Nitrogen Loss">>
        types == [i \in 1..Len(nitrogen_loss_labels) |-> nitrogen_loss_labels[i].label]
                 \o <<"Total Nitrogen Loss">>
        totals ==
            RoundedColumnSums(fr.crop_df, <<"nitrogen_loss1", "nitrogen_loss2">>)
            \o RoundedColumnSums(fr.animal_df,
                                 <<"nitrogen_loss3", "nitrogen_loss4", "nitrogen_loss5",
                                   "nitrogen_loss6", "nitrogen_loss7">>)
            \o <<TotalNitrogenLoss(fr.crop_df, fr.animal_df)>>
    IN
    IF Len(ids) # Len(types) \/ Len(ids) # Len(totals) THEN Raise(fr, "ValueError")
    ELSE [fr EXCEPT !.nitrogen_loss_table =
              [i \in 1..Len(ids) |->
                  [id |-> ids[i], type |-> types[i], total |-> totals[i]]]]

-----------------------------------------------------------------------------
(* update_dashboard: the trade-flow maps and tables of the three stages *)

StageNames == <<"Crop Stage", "Live Animal Stage", "Animal Product Stage">>

StageColumns ==
    << <<"import_crop_processing_nitrogen", "export_crop_processing_nitrogen",
         "within_county_crop_processing_nitrogen">>,
       <<"import_animal_nitrogen", "export_animal_nitrogen",
         "within_county_animal_nitrogen">>,
       <<"import_meat_nitrogen", "export_meat_nitrogen",
         "within_county_meat_nitrogen">> >>

\* [crop_df, animal_df, animal_df][idx]
StageDf(fr, idx) == IF idx = 1 THEN fr.crop_df ELSE fr.animal_df

\* stage_df.groupby("commodity")[cols].sum().reset_index(): one row per
\* commodity in sorted order, rows without a commodity dropped
GroupByCommodity(df, cols) ==
    LET present == {df.rows[i]["commodity"] : i \in 1..NRows(df)}
        keys == SelectSeq(CommodityOrder, LAMBDA c : c \in present)
        Group(c) == SelectSeq(df.rows, LAMBDA r : r["commodity"] = c)
    IN  [n \in 1..Len(keys) |->
            [commodity |-> keys[n],
             sums |-> [k \in 1..Len(cols) |->
                          LET grp == Group(keys[n])
                          IN  SumSeq([i \in 1..Len(grp) |-> Skipna(grp[i][cols[k]])])]]]

\* variant: the underscores replaced, the title-casing left out
FormatCommodityNoTitle(s) == StrReplaceUnderscore(s)

\* .str.title().str.replace('_', ' ')
FormatCommodity(s) == StrReplaceUnderscore(StrTitle(s))

\* the stage table: sums in millions rounded to 2 decimals, labels formatted,
\* columns renamed positionally
StageTable(df, cols) ==
    LET table_data == GroupByCommodity(df, cols)
    IN  [n \in 1..Len(table_data) |->
            [Commodity |-> FormatCommodity(table_data[n].commodity),
             Import |-> RoundMillions(table_data[n].sums[1]),
             Export |-> RoundMillions(table_data[n].sums[2]),
             WithinCounty |-> RoundMillions(table_data[n].sums[3])]]

\* the loop over the three columns of a stage, from the k-th on
RECURSIVE StageMapLoop(_, _, _, _)
StageMapLoop(fr, idx, k, tabs) ==
    IF k > Len(StageColumns[idx]) THEN [fr |-> fr, tabs |-> tabs]
    ELSE
    LET col == StageColumns[idx][k]
        df == StageDf(fr, idx)
    IN
    IF col \notin df.columns THEN [fr |-> Raise(fr, "KeyError"), tabs |-> tabs]
    ELSE
    LET logged == AddLogColumn(df, col)
        tab == [label |-> col,
                figure |-> Choropleth(logged, LogName(col), col, StageNames[idx])]
        next == IF idx = 1 THEN [fr EXCEPT !.crop_df = logged]
                ELSE [fr EXCEPT !.animal_df = logged]
    IN  StageMapLoop(next, idx, k + 1, Append(tabs, tab))

\* the loop over the three stages, from stage idx on
RECURSIVE StageLoop(_, _)
StageLoop(fr, idx) ==
    IF idx > Len(StageNames) THEN fr
    ELSE
    LET mapped == StageMapLoop(fr, idx, 1, <<>>)
    IN
    IF mapped.fr.error # "" THEN mapped.fr
    ELSE IF "commodity" \notin StageDf(mapped.fr, idx).columns
    THEN Raise(mapped.fr, "KeyError")
    ELSE
    LET section == [stage |-> StageNames[idx],
                    tabs |-> mapped.tabs,
                    table |-> StageTable(StageDf(mapped.fr, idx), StageColumns[idx])]
    IN  StageLoop([mapped.fr EXCEPT !.import_export_content = Append(@, section)],
                  idx + 1)

ImportExport(fr) == StageLoop(fr, 1)

-----------------------------------------------------------------------------
(* update_dashboard: inventory and harvested area *)

\* if "Commodity" in df.columns: df["Commodity"] = df["Commodity"].str.title().str.replace("_", " ")
FormatCommodityColumn(df) ==
    IF "Commodity" \in df.columns
    THEN SetColumn(df, "Commodity",
                   [i \in 1..NRows(df) |-> FormatCommodity(df.rows[i]["Commodity"])])
    ELSE df

\* px.pie(df, names="Commodity", values=values): one slice per row
Pie(df, values) ==
    [i \in 1..NRows(df) |->
        [name |-> df.rows[i]["Commodity"], value |-> df.rows[i][values]]]

\* df.round(2).to_dict("records"): the numeric columns rounded, the others kept
RoundedRecords(df, numeric) ==
    [i \in 1..NRows(df) |->
        [c \in df.columns |->
            IF c \in numeric THEN Round2(df.rows[i][c]) ELSE df.rows[i][c]]]

NumericColumns == {"Total Inventory (head)", "Total Harvested Area (Acre)"}

Production(fr) ==
    LET inventory_df == FormatCommodityColumn(fr.inventory_df)
        area_df == FormatCommodityColumn(fr.area_df)
        formatted == [fr EXCEPT !.inventory_df = inventory_df, !.area_df = area_df]
    IN
    IF ~({"Commodity", "Total Inventory (head)"} \subseteq inventory_df.columns)
    THEN Raise(formatted, "ValueError")
    ELSE IF ~({"Commodity", "Total Harvested Area (Acre)"} \subseteq area_df.columns)
    THEN Raise([formatted EXCEPT
                   !.inventory_chart = Pie(inventory_df, "Total Inventory (head)")],
               "ValueError")
    ELSE [formatted EXCEPT
             !.inventory_chart = Pie(inventory_df, "Total Inventory (head)"),
             !.area_chart = Pie(area_df, "Total Harvested Area (Acre)"),
             !.inventory_table = RoundedRecords(inventory_df, NumericColumns),
             !.area_table = RoundedRecords(area_df, NumericColumns)]

\* return maps, nitrogen_loss_table_component, import_export_content, [],
\*        inventory_harvest_section
Outputs(fr) ==
    << fr.maps,
       fr.nitrogen_loss_table,
       fr.import_export_content,
       <<>>,
       [inventory_chart |-> fr.inventory_chart, inventory_table |-> fr.inventory_table,
        area_chart |-> fr.area_chart, area_table |-> fr.area_table] >>

-----------------------------------------------------------------------------
(* The requests: update_dashboard_wrapper called by the year dropdown *)

\* variant: the tables kept in one module-level frame shared by all calls
SharedLocals(r) == 1

\* the frame holding the locals of request r's call: each call has its own
Locals(r) == r

NoResponse == [status |-> "none", error |-> "", outputs |-> <<>>]

\* variant: the exception swallowed and whatever was built so far rendered
RenderPartial(fr) ==
    [status |-> "ok", error |-> "",
     outputs |-> << fr.maps, fr.nitrogen_loss_table, fr.import_export_content, <<>>,
                    [inventory_chart |-> fr.inventory_chart,
                     inventory_table |-> fr.inventory_table,
                     area_chart |-> fr.area_chart, area_table |-> fr.area_table] >>]

\* an exception leaves update_dashboard and the wrapper: no output is set
Propagate(fr) == [status |-> "error", error |-> fr.error, outputs |-> <<>>]

\* the five outputs of the callback, returned together
Deliver(fr) == [status |-> "ok", error |-> "", outputs |-> Outputs(fr)]

InFlight(r) == pc[r] # "idle"

\* the history of what each selected value was answered with
Record(r, resp) ==
    served' = [served EXCEPT ![year[r]] =
                  [all |-> @.all \cup {resp},
                   alone |-> IF overlap[r] THEN @.alone ELSE @.alone \cup {resp}]]

\* the dropdown fires the callback with value y
Select(r, y) ==
    /\ pc[r] = "idle"
    /\ pc' = [pc EXCEPT ![r] = "load"]
    /\ year' = [year EXCEPT ![r] = y]
    /\ frame' = [frame EXCEPT ![Locals(r)] = EmptyFrame]
    /\ response' = [response EXCEPT ![r] = NoResponse]
    /\ overlap' = [q \in Requests |->
                      IF q = r THEN \E o \in Requests \ {r} : InFlight(o)
                      ELSE overlap[q] \/ InFlight(q)]
    /\ UNCHANGED <<files, data_paths, nitrogen_loss_labels, served>>

\* one stretch of update_dashboard: it either raises, ending the call, or
\* leaves its locals in the frame and goes on
Step(r, at, fr, next) ==
    /\ pc[r] = at
    /\ IF fr.error # ""
       THEN /\ pc' = [pc EXCEPT ![r] = "idle"]
            /\ frame' = [frame EXCEPT ![Locals(r)] = EmptyFrame]
            /\ response' = [response EXCEPT ![r] = Propagate(fr)]
            /\ Record(r, Propagate(fr))
       ELSE /\ pc' = [pc EXCEPT ![r] = next]
            /\ frame' = [frame EXCEPT ![Locals(r)] = fr]
            /\ UNCHANGED <<response, served>>
    /\ UNCHANGED <<files, data_paths, nitrogen_loss_labels, year, overlap>>

LoadStep(r) == Step(r, "load", LoadData(year[r]), "maps")

LossMapsStep(r) == Step(r, "maps", LossMaps(frame[Locals(r)]), "table")

LossTableStep(r) == Step(r, "table", LossTable(frame[Locals(r)]), "stages")

ImportExportStep(r) == Step(r, "stages", ImportExport(frame[Locals(r)]), "production")

ProductionStep(r) == Step(r, "production", Production(frame[Locals(r)]), "return")

\* variant: the call also registers the total under nitrogen_loss_labels
ReturnRegisteringTotal(r) ==
    /\ pc[r] = "return"
    /\ pc' = [pc EXCEPT ![r] = "idle"]
    /\ response' = [response EXCEPT ![r] = Deliver(frame[Locals(r)])]
    /\ Record(r, Deliver(frame[Locals(r)]))
    /\ frame' = [frame EXCEPT ![Locals(r)] = EmptyFrame]
    /\ nitrogen_loss_labels' =
           IF \E i \in 1..Len(nitrogen_loss_labels) :
                  nitrogen_loss_labels[i].col = "total_nitrogen_loss"
           THEN nitrogen_loss_labels
           ELSE Append(nitrogen_loss_labels,
                       [col |-> "total_nitrogen_loss", label |-> "Total Nitrogen Loss"])
    /\ UNCHANGED <<files, data_paths, year, overlap>>

Return(r) ==
    /\ pc[r] = "return"
    /\ pc' = [pc EXCEPT ![r] = "idle"]
    /\ response' = [response EXCEPT ![r] = Deliver(frame[Locals(r)])]
    /\ Record(r, Deliver(frame[Locals(r)]))
    /\ frame' = [frame EXCEPT ![Locals(r)] = EmptyFrame]
    /\ UNCHANGED <<files, data_paths, nitrogen_loss_labels, year, overlap>>

-----------------------------------------------------------------------------
(* The CSV files *)

File(columns, rows) == [present |-> TRUE, columns |-> columns, rows |-> rows]

MissingFile == [present |-> FALSE, columns |-> {}, rows |-> <<>>]

CropFileColumns ==
    {"FIPS", "county", "commodity", "nitrogen_loss1", "nitrogen_loss2",
     "import_crop_processing_nitrogen", "export_crop_processing_nitrogen",
     "selfloop_crop_processing_nitrogen"}

AnimalFileColumns ==
    {"FIPS", "county", "commodity", "nitrogen_loss3", "nitrogen_loss4",
     "nitrogen_loss5", "nitrogen_loss6", "nitrogen_loss7",
     "import_animal_nitrogen", "export_animal_nitrogen", "selfloop_animal_nitrogen",
     "import_meat_nitrogen", "export_meat_nitrogen", "selfloop_meat_nitrogen"}

CropRow(fips, county, commodity, l1, l2, imp, exp, self) ==
    [FIPS |-> fips, county |-> county, commodity |-> commodity,
     nitrogen_loss1 |-> l1, nitrogen_loss2 |-> l2,
     import_crop_processing_nitrogen |-> imp,
     export_crop_processing_nitrogen |-> exp,
     selfloop_crop_processing_nitrogen |-> self]

AnimalRow(fips, county, commodity, losses, animal, meat) ==
    [FIPS |-> fips, county |-> county, commodity |-> commodity,
     nitrogen_loss3 |-> losses[1], nitrogen_loss4 |-> losses[2],
     nitrogen_loss5 |-> losses[3], nitrogen_loss6 |-> losses[4],
     nitrogen_loss7 |-> losses[5],
     import_animal_nitrogen |-> animal[1], export_animal_nitrogen |-> animal[2],
     selfloop_animal_nitrogen |-> animal[3],
     import_meat_nitrogen |-> meat[1], export_meat_nitrogen |-> meat[2],
     selfloop_meat_nitrogen |-> meat[3]]

ProductionRow(commodity, column, value) == ("Commodity" :> commodity) @@ (column :> value)

\* rows a crop_processing_nitrogen.csv may hold
CropPool ==
    { CropRow(51001, "Accomack", "corn", 1000000, 500000, 2000000, 1000000, 500000),
      CropRow(51001, NaNStr, "corn", 4000, 4000, 4000, 0, 14000),
      CropRow(51003, "Albemarle", "winter_wheat", NaN, 500000, 0, 6000, 0),
      CropRow(NaN, "Augusta", "winter_wheat", 4000, 0, 4000, 0, 0) }

\* rows an animal_stage_nitrogen.csv may hold
AnimalPool ==
    { AnimalRow(51001, "Accomack County", "dairy_cattle",
                <<4000, 0, 4000, 0, 1000000>>,
                <<2000000, 1000000, 500000>>, <<4000, 4000, 0>>),
      AnimalRow(51003, NaNStr, "dairy_cattle",
                <<NaN, 0, 0, 0, 4000>>,
                <<4000, 0, 15000>>, <<1000000, 0, 0>>),
      AnimalRow(NaN, "Bath", "Beef_Cattle",
                <<0, 6000, 0, 0, 0>>,
                <<6000, 0, 0>>, <<0, 0, 25000>>) }

InventoryFile ==
    File({"Commodity", "Total Inventory (head)"},
         << ProductionRow("dairy_cattle", "Total Inventory (head)", 1234567),
            ProductionRow("Beef_Cattle", "Total Inventory (head)", 2500) >>)

AreaFile ==
    File({"Commodity", "Total Harvested Area (Acre)"},
         << ProductionRow("corn", "Total Harvested Area (Acre)", 1005),
            ProductionRow("winter_wheat", "Total Harvested Area (Acre)", 77000) >>)

SummaryFile == File({"category", "value"}, <<>>)

\* the five files of one year's directory
Directory(crop, animal) ==
    [n \in FileNames |->
        CASE n = "nitrogen_losses_summary.csv" -> SummaryFile
          [] n = "harvested_area_by_commodity.csv" -> AreaFile
          [] n = "inventory_by_commodity.csv" -> InventoryFile
          [] n = "crop_processing_nitrogen.csv" -> File(CropFileColumns, crop)
          [] n = "animal_stage_nitrogen.csv" -> File(AnimalFileColumns, animal)]

\* a file without one of its columns
WithoutColumn(file, col) ==
    [present |-> file.present,
     columns |-> file.columns \ {col},
     rows |-> [i \in 1..Len(file.rows) |->
                  [c \in file.columns \ {col} |-> file.rows[i][c]]]]

Dir2017 ==
    Directory(<< CropRow(51001, "Accomack", "corn", 1000000, 500000, 2000000, 1000000, 500000),
                 CropRow(51001, NaNStr, "corn", 4000, 4000, 4000, 0, 14000) >>,
              << AnimalRow(51001, "Accomack County", "dairy_cattle",
                           <<4000, 0, 4000, 0, 1000000>>,
                           <<2000000, 1000000, 500000>>, <<4000, 4000, 0>>) >>)

Dir2030 ==
    Directory(<< CropRow(51003, "Albemarle", "winter_wheat", 7000, 500000, 0, 6000, 0) >>,
              << AnimalRow(51003, NaNStr, "dairy_cattle",
                           <<3000, 0, 0, 0, 4000>>,
                           <<4000, 0, 15000>>, <<1000000, 0, 0>>),
                 AnimalRow(51001, "Accomack County", "Beef_Cattle",
                           <<0, 6000, 0, 0, 0>>,
                           <<6000, 0, 0>>, <<0, 0, 25000>>) >>)

\* a year's directory with one file missing, or one file lacking a column
Defective(dir) ==
    {[dir EXCEPT ![n] = MissingFile] : n \in FileNames}
    \cup UNION {{[dir EXCEPT ![n] = WithoutColumn(dir[n], c)] : c \in dir[n].columns} :
                  n \in FileNames \ {"nitrogen_losses_summary.csv"}}

\* the storage of the lifecycle specification: 2050's directory may be defective
LifecycleStores ==
    {[y \in Years |-> IF y = "2017" THEN Dir2017 ELSE IF y = "2030" THEN Dir2030 ELSE d] :
        d \in {Dir2030} \cup Defective(Dir2030)}

\* the storage of the data specification: every table the pools allow
DataStores ==
    {[y \in Years |-> Directory(crop, animal)] :
        crop \in SeqsUpTo(CropPool, MaxRows), animal \in SeqsUpTo(AnimalPool, MaxRows)}

\* the storage of the concurrency specification
ConcurrentStores ==
    {[y \in Years |-> IF y = "2017" THEN Dir2017 ELSE d] :
        d \in {Dir2030,
               [Dir2030 EXCEPT !["animal_stage_nitrogen.csv"] =
                   WithoutColumn(@, "selfloop_meat_nitrogen")]}}

\* what the dropdown can send: a registered year, or None once it is cleared
SelectedValues == Years \cup {"None"}

InitWith(stores) ==
    /\ files \in stores
    /\ data_paths = DataPaths
    /\ nitrogen_loss_labels = NitrogenLossLabels
    /\ pc = [r \in Requests |-> "idle"]
    /\ year = [r \in Requests |-> "None"]
    /\ frame = [r \in Requests |-> EmptyFrame]
    /\ response = [r \in Requests |-> NoResponse]
    /\ overlap = [r \in Requests |-> FALSE]
    /\ served = [y \in SelectedValues |-> [all |-> {}, alone |-> {}]]

Handle(r) ==
    \/ LoadStep(r)
    \/ LossMapsStep(r)
    \/ LossTableStep(r)
    \/ ImportExportStep(r)
    \/ ProductionStep(r)
    \/ Return(r)

(* One user, any sequence of selections, any storage defect in 2050 *)
Init == InitWith(LifecycleStores)

Next == (\E y \in SelectedValues : Select(1, y)) \/ Handle(1)

Spec == Init /\ [][Next]_vars

(* One selection of 2017 over every storage the pools allow *)
InitData == InitWith(DataStores)

NextData == Select(1, "2017") \/ Handle(1)

SpecData == InitData /\ [][NextData]_vars

(* Simultaneous users *)
InitConc == InitWith(ConcurrentStores)

NextConc == \E r \in Requests : (\E y \in {"2017", "2030"} : Select(r, y)) \/ Handle(r)

SpecConc == InitConc /\ [][NextConc]_vars

-----------------------------------------------------------------------------
(* Properties *)

\* the positions of a call at which load_data has returned
Loaded(r) == pc[r] \in {"maps", "table", "stages", "production", "return"}

\* the CSV file a request's year names
FileOf(r, name) == files[DataPaths[year[r]]][name]

CropFile(r) == FileOf(r, "crop_processing_nitrogen.csv")

AnimalFile(r) == FileOf(r, "animal_stage_nitrogen.csv")

Present(row, cols) == \A k \in 1..Len(cols) : row[cols[k]] # NaN

\* the sum of the cells of a row, defined when all of them are present
PlainSum(row, cols) == SumSeq([k \in 1..Len(cols) |-> row[cols[k]]])

\* the cells of a row added up with every missing one taken as 0
ZeroFilledSum(row, cols) ==
    SumSeq([k \in 1..Len(cols) |-> IF row[cols[k]] = NaN THEN 0 ELSE row[cols[k]]])

CropLosses == <<"nitrogen_loss1", "nitrogen_loss2">>

AnimalLosses ==
    <<"nitrogen_loss3", "nitrogen_loss4", "nitrogen_loss5", "nitrogen_loss6",
      "nitrogen_loss7">>

\* C4: once load_data has returned, every crop-stage row whose two loss cells
\* are present has total_nitrogen_loss = nitrogen_loss1 + nitrogen_loss2, and
\* every animal-stage row whose five loss cells are present has
\* total_nitrogen_loss = nitrogen_loss3 + ... + nitrogen_loss7, row for row
\* with the CSV files.
C4_RowTotals ==
    \A r \in Requests :
        Loaded(r) =>
            LET fr == frame[Locals(r)]
            IN  /\ NRows(fr.crop_df) = Len(CropFile(r).rows)
                /\ NRows(fr.animal_df) = Len(AnimalFile(r).rows)
                /\ \A i \in 1..Len(CropFile(r).rows) :
                       Present(CropFile(r).rows[i], CropLosses) =>
                           fr.crop_df.rows[i]["total_nitrogen_loss"]
                               = PlainSum(CropFile(r).rows[i], CropLosses)
                /\ \A i \in 1..Len(AnimalFile(r).rows) :
                       Present(AnimalFile(r).rows[i], AnimalLosses) =>
                           fr.animal_df.rows[i]["total_nitrogen_loss"]
                               = PlainSum(AnimalFile(r).rows[i], AnimalLosses)

\* a loaded crop row with losses 1_000_000 and 500_000 and total 1_500_000,
\* beside a loaded animal row with its five losses present
C4_Witness ==
    \E r \in Requests :
        /\ Loaded(r)
        /\ \E i \in 1..NRows(frame[Locals(r)].crop_df) :
               LET row == frame[Locals(r)].crop_df.rows[i]
               IN  /\ row["nitrogen_loss1"] = 1000000
                   /\ row["nitrogen_loss2"] = 500000
                   /\ row["import_crop_processing_nitrogen"] > 0
                   /\ row["total_nitrogen_loss"] = 1500000
        /\ \E i \in 1..NRows(frame[Locals(r)].animal_df) :
               /\ Present(AnimalFile(r).rows[i], AnimalLosses)
               /\ frame[Locals(r)].animal_df.rows[i]["total_nitrogen_loss"] = 1008000

\* C7: a row with a missing loss cell never gets the total_nitrogen_loss that
\* taking the missing cell as 0 gives.
C7_MissingNeverCountedAsZero ==
    \A r \in Requests :
        Loaded(r) =>
            LET fr == frame[Locals(r)]
            IN  /\ \A i \in 1..Len(CropFile(r).rows) :
                       ~Present(CropFile(r).rows[i], CropLosses) =>
                           fr.crop_df.rows[i]["total_nitrogen_loss"]
                               # ZeroFilledSum(CropFile(r).rows[i], CropLosses)
                /\ \A i \in 1..Len(AnimalFile(r).rows) :
                       ~Present(AnimalFile(r).rows[i], AnimalLosses) =>
                           fr.animal_df.rows[i]["total_nitrogen_loss"]
                               # ZeroFilledSum(AnimalFile(r).rows[i], AnimalLosses)

\* the rows that enter the county aggregation of request r, crop-stage rows
\* before animal-stage rows: FIPS and county from the CSV files, the per-row
\* total from the loaded tables
Contributions(r) ==
    LET fr == frame[Locals(r)]
        nc == Len(CropFile(r).rows)
        na == Len(AnimalFile(r).rows)
    IN  [i \in 1..(nc + na) |->
            IF i <= nc
            THEN [FIPS |-> CropFile(r).rows[i]["FIPS"],
                  county |-> CropFile(r).rows[i]["county"],
                  total |-> fr.crop_df.rows[i]["total_nitrogen_loss"]]
            ELSE [FIPS |-> AnimalFile(r).rows[i - nc]["FIPS"],
                  county |-> AnimalFile(r).rows[i - nc]["county"],
                  total |-> fr.animal_df.rows[i - nc]["total_nitrogen_loss"]]]

\* C3: the county-level table has exactly one row per distinct FIPS of the
\* crop-stage and animal-stage rows; the row's total is the sum of the per-row
\* totals of all rows with that FIPS in both tables, and its county is the
\* first non-null county of that FIPS, crop-stage rows first.
C3_CountyTable ==
    \A r \in Requests :
        Loaded(r) =>
            LET T == frame[Locals(r)].total_nitrogen_df.rows
                C == Contributions(r)
                fips == {C[i].FIPS : i \in 1..Len(C)} \ {NaN}
            IN  /\ {T[n]["FIPS"] : n \in 1..Len(T)} = fips
                /\ Len(T) = Cardinality(fips)
                /\ \A n \in 1..Len(T) :
                       /\ T[n]["total_nitrogen_loss"] =
                              SumSeq([i \in 1..Len(C) |->
                                         IF C[i].FIPS = T[n]["FIPS"] THEN C[i].total ELSE 0])
                       /\ \A i \in 1..Len(C) :
                              ( /\ C[i].FIPS = T[n]["FIPS"]
                                /\ C[i].county # NaNStr
                                /\ \A j \in 1..(i - 1) :
                                       C[j].FIPS = T[n]["FIPS"] => C[j].county = NaNStr )
                              => T[n]["county"] = C[i].county

\* county 51001 occurs in both tables, its first row has no county name, and
\* its row of the county table carries the later name and the sum a + b + c
C3_Witness ==
    \E r \in Requests :
        /\ Loaded(r)
        /\ LET T == frame[Locals(r)].total_nitrogen_df.rows
               C == Contributions(r)
           IN  /\ Len(C) = 3
               /\ C[1].FIPS = 51001 /\ C[1].county = NaNStr /\ C[1].total = 8000
               /\ C[2].FIPS = 51001 /\ C[2].county = "Accomack" /\ C[2].total = 1500000
               /\ C[3].FIPS = 51001 /\ C[3].county = "Accomack County"
               /\ Len(T) = 1
               /\ T[1]["county"] = "Accomack"
               /\ T[1]["total_nitrogen_loss"] = 1508000 + C[3].total

\* C10: the county-level totals add up to the sum of the per-row totals of all
\* crop-stage and animal-stage rows, whatever their FIPS.
C10_MassConserved ==
    \A r \in Requests :
        Loaded(r) =>
            LET T == frame[Locals(r)].total_nitrogen_df.rows
                C == Contributions(r)
            IN  SumSeq([n \in 1..Len(T) |-> T[n]["total_nitrogen_loss"]])
                    = SumSeq([i \in 1..Len(C) |-> C[i].total])

\* the CSV columns behind the Import, Export and Within County cells of the
\* three stage tables
StageFileColumns ==
    << <<"import_crop_processing_nitrogen", "export_crop_processing_nitrogen",
         "selfloop_crop_processing_nitrogen">>,
       <<"import_animal_nitrogen", "export_animal_nitrogen", "selfloop_animal_nitrogen">>,
       <<"import_meat_nitrogen", "export_meat_nitrogen", "selfloop_meat_nitrogen">> >>

\* Crop Stage reads the crop file, the two animal stages the animal file
StageFile(r, idx) == IF idx = 1 THEN CropFile(r) ELSE AnimalFile(r)

\* the label a commodity is displayed under
DisplayLabel(c) ==
    CASE c = "corn" -> "Corn"
      [] c = "winter_wheat" -> "Winter Wheat"
      [] c = "dairy_cattle" -> "Dairy Cattle"
      [] c = "Beef_Cattle" -> "Beef Cattle"

\* the sum of column col over the rows of commodity c
CommoditySum(file, c, col) ==
    SumSeq([i \in 1..Len(file.rows) |->
               IF file.rows[i]["commodity"] = c THEN file.rows[i][col] ELSE 0])

\* shown (hundredths of a million) is raw / 10^6 rounded to 2 decimals
IsRounded(shown, raw) ==
    /\ shown * (Million \div 100) - raw <= Million \div 200
    /\ raw - shown * (Million \div 100) <= Million \div 200

\* C5: each of the three stage tables has exactly one row per distinct
\* commodity of its source table, labelled with the commodity title-cased and
\* de-underscored, and each Import, Export and Within County cell is the sum
\* of the stage's column over the rows of that commodity, in millions rounded
\* to 2 decimals.
C5_StageTables ==
    \A r \in Requests :
        pc[r] = "return" =>
            \A idx \in 1..3 :
                LET table == frame[Locals(r)].import_export_content[idx].table
                    file == StageFile(r, idx)
                    commodities == {file.rows[i]["commodity"] : i \in 1..Len(file.rows)}
                    cols == StageFileColumns[idx]
                IN  /\ Len(table) = Cardinality(commodities)
                    /\ \A c \in commodities :
                           \E n \in 1..Len(table) :
                               /\ table[n].Commodity = DisplayLabel(c)
                               /\ IsRounded(table[n].Import, CommoditySum(file, c, cols[1]))
                               /\ IsRounded(table[n].Export, CommoditySum(file, c, cols[2]))
                               /\ IsRounded(table[n].WithinCounty,
                                            CommoditySum(file, c, cols[3]))

\* "dairy_cattle" with import 2_000_000, export 1_000_000 and within-county
\* 500_000 is displayed as "Dairy Cattle", 2.00, 1.00, 0.50, and a commodity
\* of two rows is displayed as one row
C5_Witness ==
    \E r \in Requests :
        /\ pc[r] = "return"
        /\ Len(AnimalFile(r).rows) = 1
        /\ AnimalFile(r).rows[1]["commodity"] = "dairy_cattle"
        /\ AnimalFile(r).rows[1]["import_animal_nitrogen"] = 2000000
        /\ AnimalFile(r).rows[1]["export_animal_nitrogen"] = 1000000
        /\ AnimalFile(r).rows[1]["selfloop_animal_nitrogen"] = 500000
        /\ frame[Locals(r)].import_export_content[2].stage = "Live Animal Stage"
        /\ frame[Locals(r)].import_export_content[2].table =
               << [Commodity |-> "Dairy Cattle", Import |-> 200, Export |-> 100,
                   WithinCounty |-> 50] >>
        /\ Len(CropFile(r).rows) = 2
        /\ Len(frame[Locals(r)].import_export_content[1].table) = 1

\* the seven raw loss columns of request r's files added up, missing cells skipped
RawGrandTotal(r) ==
    SumSeq([i \in 1..Len(CropFile(r).rows) |->
               ZeroFilledSum(CropFile(r).rows[i], CropLosses)])
    + SumSeq([i \in 1..Len(AnimalFile(r).rows) |->
                 ZeroFilledSum(AnimalFile(r).rows[i], AnimalLosses)])

\* C6: the 'Total Nitrogen Loss' row is the unrounded sum of the seven raw loss
\* columns, in millions, rounded once; the pie charts carry the unrounded
\* inventory and area values of the CSV files.
C6_RoundingIsPresentationOnly ==
    \A r \in Requests :
        pc[r] = "return" =>
            LET fr == frame[Locals(r)]
                inventory == FileOf(r, "inventory_by_commodity.csv").rows
                area == FileOf(r, "harvested_area_by_commodity.csv").rows
            IN  /\ Len(fr.nitrogen_loss_table) = 8
                /\ fr.nitrogen_loss_table[8].id = "Total Nitrogen Loss"
                /\ IsRounded(fr.nitrogen_loss_table[8].total, RawGrandTotal(r))
                /\ Len(fr.inventory_chart) = Len(inventory)
                /\ \A i \in 1..Len(inventory) :
                       fr.inventory_chart[i].value = inventory[i]["Total Inventory (head)"]
                /\ Len(fr.area_chart) = Len(area)
                /\ \A i \in 1..Len(area) :
                       fr.area_chart[i].value = area[i]["Total Harvested Area (Acre)"]

\* the displayed total differs from the sum of the seven displayed values, and
\* a pie slice differs from the rounded value of its table row
C6_Witness ==
    \E r \in Requests :
        /\ pc[r] = "return"
        /\ LET t == frame[Locals(r)].nitrogen_loss_table
           IN  t[8].total # SumSeq([k \in 1..7 |-> t[k].total])
        /\ \E i \in 1..Len(frame[Locals(r)].inventory_chart) :
               frame[Locals(r)].inventory_chart[i].value
                   # frame[Locals(r)].inventory_table[i]["Total Inventory (head)"]

\* the name a CSV column has once loaded
LoadedName(col) ==
    CASE col = "selfloop_crop_processing_nitrogen" -> "within_county_crop_processing_nitrogen"
      [] col = "selfloop_animal_nitrogen" -> "within_county_animal_nitrogen"
      [] col = "selfloop_meat_nitrogen" -> "within_county_meat_nitrogen"
      [] OTHER -> col

\* every cell a CSV file holds is still in the loaded table, under its column
Untouched(df, file) ==
    /\ NRows(df) = Len(file.rows)
    /\ \A i \in 1..Len(file.rows) :
           \A c \in file.columns : df.rows[i][LoadedName(c)] = file.rows[i][c]

\* the figure colours by a column that is not a column of the source table,
\* shows the source column col on hover, and each point's hover value is the
\* CSV cell while its colour value is the transform of that cell
MapOf(fig, file, col) ==
    /\ fig.hover_data = LoadedName(col)
    /\ fig.color \notin {LoadedName(c) : c \in file.columns} \cup {"total_nitrogen_loss"}
    /\ Len(fig.points) = Len(file.rows)
    /\ \A i \in 1..Len(file.rows) :
           /\ fig.points[i].customdata = file.rows[i][col]
           /\ fig.points[i].z = Log1p(file.rows[i][col])

\* the loss columns in map order, and the file each comes from
LossColumn(k) == IF k <= 2 THEN CropLosses[k] ELSE AnimalLosses[k - 2]

LossFile(r, k) == IF k <= 2 THEN CropFile(r) ELSE AnimalFile(r)

\* C8: in the 7 loss maps, the total-loss map and the 9 trade-flow maps the
\* hover value is the untransformed column and only the colour is the log1p
\* column; adding the log_ columns leaves every loaded cell as the CSV file
\* has it; the loss table and the stage tables are those built from tables
\* without any log_ column.
C8_LogOnlyColours ==
    \A r \in Requests :
        pc[r] = "return" =>
            LET fr == frame[Locals(r)]
                fresh == LoadData(year[r])
                total == fr.maps[8].figure
            IN  /\ Len(fr.maps) = 8
                /\ \A k \in 1..7 : MapOf(fr.maps[k].figure, LossFile(r, k), LossColumn(k))
                /\ total.hover_data = "total_nitrogen_loss"
                /\ total.color # "total_nitrogen_loss"
                /\ Len(total.points) = NRows(fresh.total_nitrogen_df)
                /\ \A n \in 1..Len(total.points) :
                       /\ total.points[n].customdata =
                              fresh.total_nitrogen_df.rows[n]["total_nitrogen_loss"]
                       /\ total.points[n].z = Log1p(total.points[n].customdata)
                /\ \A idx \in 1..3 : \A k \in 1..3 :
                       MapOf(fr.import_export_content[idx].tabs[k].figure,
                             StageFile(r, idx), StageFileColumns[idx][k])
                /\ Untouched(fr.crop_df, CropFile(r))
                /\ Untouched(fr.animal_df, AnimalFile(r))
                /\ fr.nitrogen_loss_table = LossTable(fresh).nitrogen_loss_table
                /\ \A idx \in 1..3 :
                       fr.import_export_content[idx].table =
                           StageTable(StageDf(fresh, idx), StageColumns[idx])

\* all 17 maps are built over tables that carry their log_ columns; a loss of
\* 1_000_000 is shown on hover as 1_000_000 and coloured by a different value
C8_Witness ==
    \E r \in Requests :
        /\ pc[r] = "return"
        /\ "log_nitrogen_loss1" \in frame[Locals(r)].crop_df.columns
        /\ "log_within_county_meat_nitrogen" \in frame[Locals(r)].animal_df.columns
        /\ "log_total_nitrogen_loss" \in frame[Locals(r)].total_nitrogen_df.columns
        /\ \E i \in 1..Len(frame[Locals(r)].maps[1].figure.points) :
               LET pt == frame[Locals(r)].maps[1].figure.points[i]
               IN  pt.customdata = 1000000 /\ pt.z # pt.customdata /\ pt.z > 0
        /\ Len(frame[Locals(r)].import_export_content[3].tabs[3].figure.points) > 0

-----------------------------------------------------------------------------
(* Properties of the lifecycle *)

\* the columns update_dashboard reads from each CSV file
ExpectedColumns(name) ==
    CASE name = "crop_processing_nitrogen.csv" ->
             {"FIPS", "county", "commodity", "nitrogen_loss1", "nitrogen_loss2",
              "import_crop_processing_nitrogen", "export_crop_processing_nitrogen",
              "within_county_crop_processing_nitrogen"}
      [] name = "animal_stage_nitrogen.csv" ->
             {"FIPS", "county", "commodity", "nitrogen_loss3", "nitrogen_loss4",
              "nitrogen_loss5", "nitrogen_loss6", "nitrogen_loss7",
              "import_animal_nitrogen", "export_animal_nitrogen",
              "within_county_animal_nitrogen", "import_meat_nitrogen",
              "export_meat_nitrogen", "within_county_meat_nitrogen"}
      [] name = "inventory_by_commodity.csv" -> {"Commodity", "Total Inventory (head)"}
      [] name = "harvested_area_by_commodity.csv" ->
             {"Commodity", "Total Harvested Area (Acre)"}
      [] OTHER -> {}

\* serving the selected value y must fail
MustFail(y) ==
    \/ y \notin {"2017", "2030", "2050"}
    \/ \E n \in DOMAIN files[y] :
           \/ ~files[y][n].present
           \/ ~(ExpectedColumns(n) \subseteq {LoadedName(c) : c \in files[y][n].columns})

\* C1: every response to a selected value is the same response, whatever was
\* selected before; and what load_data hands a later call carries nothing of
\* an earlier one: the loaded tables hold the CSV columns plus
\* total_nitrogen_loss, no log_ column, and no artifact is built yet.
C1_DependsOnlyOnYear ==
    /\ \A y \in DOMAIN served : Cardinality(served[y].all) <= 1
    /\ \A r \in Requests :
           pc[r] = "maps" =>
               LET fr == frame[Locals(r)]
               IN  /\ fr.crop_df.columns =
                          {LoadedName(c) : c \in CropFile(r).columns}
                              \cup {"total_nitrogen_loss"}
                   /\ fr.animal_df.columns =
                          {LoadedName(c) : c \in AnimalFile(r).columns}
                              \cup {"total_nitrogen_loss"}
                   /\ fr.total_nitrogen_df.columns = {"FIPS", "county", "total_nitrogen_loss"}
                   /\ Untouched(fr.crop_df, CropFile(r))
                   /\ Untouched(fr.animal_df, AnimalFile(r))
                   /\ fr.maps = <<>> /\ fr.nitrogen_loss_table = <<>>
                   /\ fr.import_export_content = <<>>

\* 2017 and 2030 have both been answered with their outputs, which differ, and
\* a later call for 2017 has just loaded its tables
C1_Witness ==
    /\ pc[1] = "maps" /\ year[1] = "2017"
    /\ \E a \in served["2017"].all : \E b \in served["2030"].all :
           a.status = "ok" /\ b.status = "ok" /\ a # b

\* C2: a response is either all five outputs, built by a call that ran to its
\* end over a registered year with all five files and all expected columns, or
\* an error with no output at all, after which the call is over; nothing is
\* delivered while a call is still running.
C2_AllOrNothing ==
    \A r \in Requests :
        /\ InFlight(r) => response[r] = NoResponse
        /\ response[r].status = "ok" =>
               /\ ~MustFail(year[r])
               /\ Len(response[r].outputs) = 5
               /\ Len(response[r].outputs[1]) = 8
               /\ Len(response[r].outputs[2]) = 8
               /\ Len(response[r].outputs[3]) = 3
               /\ \A idx \in 1..3 : Len(response[r].outputs[3][idx].tabs) = 3
               /\ response[r].outputs[5].area_table # <<>>
        /\ (response[r].status # "none" /\ MustFail(year[r])) =>
               /\ response[r].status = "error"
               /\ response[r].error # ""
               /\ response[r].outputs = <<>>
               /\ pc[r] = "idle"
               /\ frame[Locals(r)] = EmptyFrame

\* a call for 2050 failed on a trade-flow column the animal file lacks, after
\* its loss maps and loss table were built, and delivered nothing
C2_Witness ==
    /\ year[1] = "2050"
    /\ "selfloop_meat_nitrogen" \notin files["2050"]["animal_stage_nitrogen.csv"].columns
    /\ response[1] = [status |-> "error", error |-> "KeyError", outputs |-> <<>>]
    /\ pc[1] = "idle"

-----------------------------------------------------------------------------
(* Properties of simultaneous requests *)

\* C9: under every interleaving, whatever a year is answered with is what a
\* call that ran with no other call in flight is answered with, and no call
\* writes data_paths or nitrogen_loss_labels.
C9_Isolation ==
    /\ data_paths = DataPaths
    /\ nitrogen_loss_labels = NitrogenLossLabels
    /\ \A y \in DOMAIN served :
           /\ Cardinality(served[y].alone) <= 1
           /\ served[y].alone # {} => served[y].all = served[y].alone

\* a call for one year returns its outputs while a call for the other year is
\* in the middle of mutating its own tables, both years having been answered
\* to calls that ran alone
C9_Witness ==
    \E r1 \in Requests : \E r2 \in Requests \ {r1} :
        /\ overlap[r1] /\ pc[r1] = "idle" /\ response[r1].status = "ok"
        /\ pc[r2] \in {"table", "stages", "production"}
        /\ year[r1] # year[r2]
        /\ served[year[r1]].alone # {}
        /\ served[year[r2]].alone # {}

====
